---- MODULE Spec2Model ----
(***************************************************************************)
(* Model of the weather tool of src/main.py: the lifespan-managed shared   *)
(* HTTP client (lifespan, get_http_client) and the two-step weather        *)
(* pipeline (get_weather, get_weather_logic).                              *)
(*                                                                         *)
(* Every coroutine is cut at its suspension points: the two client.get     *)
(* calls of get_weather_logic, the yield of lifespan and the await of      *)
(* aclose() in lifespan.  Everything between two suspension points runs    *)
(* atomically on the event loop and is one action.                         *)
(***************************************************************************)
EXTENDS Integers, Sequences, FiniteSets, TLC

(***************************************************************************)
(* Bounds of the model.                                                    *)
(***************************************************************************)
\* number of get_weather invocations (asyncio tasks) that may run concurrently
MaxInv == 2
\* number of times the lifespan context manager is entered
MaxScopes == 2

Invocations == 1..MaxInv

(***************************************************************************)
(* JSON / Python values.  A value is a tagged record; a float is the       *)
(* decimal m * 10^-e with e >= 1 (e.g. 48.85 is m = 4885, e = 2).          *)
(***************************************************************************)
None == [t |-> "null"]
JInt(v) == [t |-> "int", v |-> v]
JFloat(m, e) == [t |-> "float", m |-> m, e |-> e]
JStr(s) == [t |-> "str", v |-> s]
JList(s) == [t |-> "list", v |-> s]
JDict(f) == [t |-> "dict", v |-> f]
EmptyDict == JDict(<<>>)

RECURSIVE Pow10(_)
Pow10(e) == IF e = 0 THEN 1 ELSE 10 * Pow10(e - 1)

Abs(n) == IF n < 0 THEN 0 - n ELSE n

\* the decimal digits of n >= 0, left-padded with zeros to width w
RECURSIVE Digits(_, _)
Digits(n, w) ==
    IF w = 0 THEN ""
    ELSE Digits(n \div 10, w - 1) \o ToString(n % 10)

\* str() of the float m * 10^-e: the shortest decimal, which keeps one digit
\* after the point and drops further trailing zeros (fixed notation, which
\* Python uses for magnitudes from 1e-4 up to 1e16)
RECURSIVE FloatStr(_, _)
FloatStr(m, e) ==
    IF e > 1 /\ m % 10 = 0
    THEN FloatStr(m \div 10, e - 1)
    ELSE (IF m < 0 THEN "-" ELSE "")
         \o ToString(Abs(m) \div Pow10(e))
         \o "." \o Digits(Abs(m) % Pow10(e), e)

\* Python's str() of a value, as the f-strings of get_weather_logic apply it
PyStr(v) ==
    CASE v.t = "null" -> "None"
      [] v.t = "int" -> ToString(v.v)
      [] v.t = "float" -> FloatStr(v.m, v.e)
      [] v.t = "str" -> v.v

\* Python truthiness, as "not geo_data.get(...)" applies it
Truthy(v) ==
    CASE v.t = "null" -> FALSE
      [] v.t = "int" -> v.v # 0
      [] v.t = "float" -> v.m # 0
      [] v.t = "str" -> v.v # ""
      [] v.t = "list" -> Len(v.v) > 0
      [] v.t = "dict" -> DOMAIN v.v # {}

\* dict.get(key, default)
DictGet(d, key, default) == IF key \in DOMAIN d.v THEN d.v[key] ELSE default

\* dict[key] is defined
HasKey(d, key) == key \in DOMAIN d.v

(***************************************************************************)
(* Outcomes of a coroutine: a returned string or a raised exception.       *)
(***************************************************************************)
Return(s) == [kind |-> "return", value |-> s]
Raise(exc, msg) == [kind |-> "raise", exc |-> exc, msg |-> msg]
NoResult == [kind |-> "none"]

\* str(KeyError(key))
KeyErrorMsg(key) == "'" \o key \o "'"

(***************************************************************************)
(* Upstream responses.  A response is a transport failure (client.get      *)
(* raises an httpx.HTTPError), a non-2xx status (raise_for_status raises   *)
(* httpx.HTTPStatusError, a subclass of HTTPError) or a 2xx with a JSON    *)
(* body.  msg is str(e).                                                   *)
(***************************************************************************)
TransportError(msg) == [kind |-> "transport_error", msg |-> msg]
StatusError(msg) == [kind |-> "status_error", msg |-> msg]
Ok(body) == [kind |-> "ok", body |-> body]

Cities == {"Paris", "Springfield"}

LocParis ==
    JDict([latitude |-> JFloat(4885, 2), longitude |-> JFloat(235, 2),
           name |-> JStr("Paris")])
LocLondon ==
    JDict([latitude |-> JFloat(515, 1), longitude |-> JFloat(-12, 2),
           name |-> JStr("London")])
LocNoLatitude == JDict([longitude |-> JFloat(235, 2), name |-> JStr("Paris")])
LocNoLongitude == JDict([latitude |-> JFloat(4885, 2), name |-> JStr("Paris")])
LocNoName == JDict([latitude |-> JFloat(4885, 2), longitude |-> JFloat(235, 2)])

GeoBodies ==
    { EmptyDict,
      JDict([results |-> None]),
      JDict([results |-> JList(<<>>)]),
      JDict([results |-> JList(<<LocParis>>)]),
      JDict([results |-> JList(<<LocLondon, LocParis>>)]),
      JDict([results |-> JList(<<LocNoLatitude>>)]),
      JDict([results |-> JList(<<LocNoLongitude>>)]),
      JDict([results |-> JList(<<LocNoName>>)]) }

GeoResponses ==
    { TransportError("API Down"), StatusError("404 Not Found") }
    \cup { Ok(b) : b \in GeoBodies }

WeatherBodies ==
    { EmptyDict,
      JDict([current_weather |-> None]),
      JDict([current_weather |-> EmptyDict]),
      JDict([current_weather |->
                JDict([temperature |-> JFloat(155, 1), windspeed |-> JFloat(102, 1)])]),
      JDict([current_weather |->
                JDict([temperature |-> None, windspeed |-> JInt(3)])]),
      JDict([current_weather |-> JDict([temperature |-> JFloat(-100, 1)])]) }

WeatherResponses ==
    { TransportError("Timeout"), StatusError("500 Internal Server Error") }
    \cup { Ok(b) : b \in WeatherBodies }

(***************************************************************************)
(* get_weather_logic, between its suspension points.                       *)
(***************************************************************************)
geo_url == "https://geocoding-api.open-meteo.com/v1/search"
weather_url == "https://api.open-meteo.com/v1/forecast"

geo_params(c) == [name |-> c, count |-> 1, language |-> "en", format |-> "json"]

\* faulty variant: latitude and longitude swapped
weather_params_Swapped(lat, lng) ==
    [latitude |-> lng, longitude |-> lat, current_weather |-> "true"]

weather_params(lat, lng) ==
    [latitude |-> lat, longitude |-> lng, current_weather |-> "true"]

\* the except clause catches httpx.HTTPError: transport and status failures
IsHTTPError(resp) == resp.kind \in {"transport_error", "status_error"}

\* geo_data.get("results")
GeoResults(resp) == DictGet(resp.body, "results", None)

\* geo_data["results"][0]
FirstLocation(resp) == GeoResults(resp).v[1]

\* faulty variant: an empty result is reported as a string instead of raised
GeoOutcome_SoftNotFound(c, resp) ==
    IF IsHTTPError(resp)
    THEN Return("Error fetching geocoding data: " \o resp.msg)
    ELSE IF ~Truthy(GeoResults(resp))
    THEN Return("City not found: " \o c)
    ELSE IF ~HasKey(FirstLocation(resp), "latitude")
    THEN Raise("KeyError", KeyErrorMsg("latitude"))
    ELSE IF ~HasKey(FirstLocation(resp), "longitude")
    THEN Raise("KeyError", KeyErrorMsg("longitude"))
    ELSE IF ~HasKey(FirstLocation(resp), "name")
    THEN Raise("KeyError", KeyErrorMsg("name"))
    ELSE NoResult

\* faulty variant: the HTTP error of the geocoding call is not caught
GeoOutcome_RaiseHTTPError(c, resp) ==
    IF IsHTTPError(resp)
    THEN Raise("HTTPError", resp.msg)
    ELSE IF ~Truthy(GeoResults(resp))
    THEN Raise("ValueError", "City not found: " \o c)
    ELSE IF ~HasKey(FirstLocation(resp), "latitude")
    THEN Raise("KeyError", KeyErrorMsg("latitude"))
    ELSE IF ~HasKey(FirstLocation(resp), "longitude")
    THEN Raise("KeyError", KeyErrorMsg("longitude"))
    ELSE IF ~HasKey(FirstLocation(resp), "name")
    THEN Raise("KeyError", KeyErrorMsg("name"))
    ELSE NoResult

\* What lines 58-73 do with the geocoding response: the outcome that ends the
\* invocation, or NoResult when the invocation goes on to the weather step.
GeoOutcome(c, resp) ==
    IF IsHTTPError(resp)
    THEN Return("Error fetching geocoding data: " \o resp.msg)
    ELSE IF ~Truthy(GeoResults(resp))
    THEN Raise("ValueError", "City not found: " \o c)
    ELSE IF ~HasKey(FirstLocation(resp), "latitude")
    THEN Raise("KeyError", KeyErrorMsg("latitude"))
    ELSE IF ~HasKey(FirstLocation(resp), "longitude")
    THEN Raise("KeyError", KeyErrorMsg("longitude"))
    ELSE IF ~HasKey(FirstLocation(resp), "name")
    THEN Raise("KeyError", KeyErrorMsg("name"))
    ELSE NoResult

\* the locals lat, lng, name of lines 71-73
Locals(resp) ==
    [lat |-> FirstLocation(resp).v["latitude"],
     lng |-> FirstLocation(resp).v["longitude"],
     name |-> FirstLocation(resp).v["name"]]

NoLocals == [lat |-> None, lng |-> None, name |-> None]

\* faulty variant: the degree sign is dropped from the summary
FormatWeather_NoDegree(name, temp, wind) ==
    "Current weather in " \o PyStr(name) \o ": " \o PyStr(temp)
    \o "C, Wind: " \o PyStr(wind) \o "km/h"

\* the f-string of line 99
FormatWeather(name, temp, wind) ==
    "Current weather in " \o PyStr(name) \o ": " \o PyStr(temp)
    \o "°C, Wind: " \o PyStr(wind) \o "km/h"

\* weather_data.get("current_weather", {})
CurrentWeather(resp) == DictGet(resp.body, "current_weather", EmptyDict)

\* faulty variant: the HTTP error of the weather call is not caught
WeatherOutcome_RaiseHTTPError(name, resp) ==
    IF IsHTTPError(resp)
    THEN Raise("HTTPError", resp.msg)
    ELSE IF CurrentWeather(resp).t # "dict"
    THEN Raise("AttributeError", "'NoneType' object has no attribute 'get'")
    ELSE Return(FormatWeather(name,
                              DictGet(CurrentWeather(resp), "temperature", None),
                              DictGet(CurrentWeather(resp), "windspeed", None)))

\* faulty variant: a missing reading defaults to zero
WeatherOutcome_DefaultZero(name, resp) ==
    IF IsHTTPError(resp)
    THEN Return("Error fetching weather data: " \o resp.msg)
    ELSE IF CurrentWeather(resp).t # "dict"
    THEN Raise("AttributeError", "'NoneType' object has no attribute 'get'")
    ELSE Return(FormatWeather(name,
                              DictGet(CurrentWeather(resp), "temperature", JInt(0)),
                              DictGet(CurrentWeather(resp), "windspeed", JInt(0))))

\* What lines 85-99 do with the weather response.
WeatherOutcome(name, resp) ==
    IF IsHTTPError(resp)
    THEN Return("Error fetching weather data: " \o resp.msg)
    ELSE IF CurrentWeather(resp).t # "dict"
    THEN Raise("AttributeError", "'NoneType' object has no attribute 'get'")
    ELSE Return(FormatWeather(name,
                              DictGet(CurrentWeather(resp), "temperature", None),
                              DictGet(CurrentWeather(resp), "windspeed", None)))

\* httpx refuses to send on a client whose aclose() has run
ClosedClientError ==
    Raise("RuntimeError", "Cannot send a request, as the client has been closed.")

(***************************************************************************)
(* State.                                                                  *)
(***************************************************************************)
VARIABLES
    http_client,  \* the module global: 0 for None, else the index of a client
    clients,      \* every httpx.AsyncClient constructed so far, by index
    scopes,       \* every entry of the lifespan context manager, by index
    pc,           \* per invocation: idle, geocoding, weather, done
    city,         \* per invocation: the city argument
    client,       \* per invocation: the client get_http_client returned
    locals,       \* per invocation: lat, lng, name
    trace,        \* per invocation: the requests issued and responses received
    result        \* per invocation: what the coroutine returned or raised

vars == <<http_client, clients, scopes, pc, city, client, locals, trace, result>>

lifecycleVars == <<http_client, clients, scopes>>
invocationVars == <<pc, city, client, locals, trace, result>>

\* httpx.AsyncClient(): a new, open client
NewClient(origin) == [closed |-> FALSE, acloses |-> 0, origin |-> origin]

RequestEvent(cl, url, params) ==
    [ev |-> "request", client |-> cl, url |-> url, params |-> params]
ResponseEvent(resp) == [ev |-> "response", resp |-> resp]

\* faulty variant: the request is sent a second time
IssueGet_Twice(tr, cl, url, params) ==
    Append(Append(tr, RequestEvent(cl, url, params)), RequestEvent(cl, url, params))

\* faulty variant: the weather request is retried once
IssueGet_RetryWeather(tr, cl, url, params) ==
    IF url = weather_url
    THEN Append(Append(tr, RequestEvent(cl, url, params)), RequestEvent(cl, url, params))
    ELSE Append(tr, RequestEvent(cl, url, params))

\* await client.get(url, params=params) on an open client: one request goes out
IssueGet(tr, cl, url, params) == Append(tr, RequestEvent(cl, url, params))

Init ==
    /\ http_client = 0
    /\ clients = <<>>
    /\ scopes = <<>>
    /\ pc = [i \in Invocations |-> "idle"]
    /\ city = [i \in Invocations |-> ""]
    /\ client = [i \in Invocations |-> 0]
    /\ locals = [i \in Invocations |-> NoLocals]
    /\ trace = [i \in Invocations |-> <<>>]
    /\ result = [i \in Invocations |-> NoResult]

(***************************************************************************)
(* lifespan: entry runs lines 29-32 up to the yield; a normal exit of the  *)
(* scope resumes after the yield and runs lines 33-34; an exception        *)
(* leaving the scope's body (a cancellation included) is thrown into the   *)
(* generator at the yield, which has no try/finally, so lines 33-34 are    *)
(* skipped.                                                                *)
(*                                                                         *)
(* Line 34 awaits aclose().  aclose() marks the client closed at once and  *)
(* then closes the connections of its pool: with connections to close it   *)
(* returns to the event loop before the scope ends, so that other tasks    *)
(* run with the client closed and the scope still open, and a cancellation *)
(* arriving there ends the scope by CancelledError; with no connection, or *)
(* on a client already closed, it returns without suspending.              *)
(***************************************************************************)
LifespanEnter ==
    /\ Len(scopes) < MaxScopes
    /\ clients' = Append(clients, NewClient("lifespan"))
    /\ http_client' = Len(clients) + 1
    /\ scopes' = Append(scopes,
                        [pc |-> "yielded", created |-> Len(clients) + 1, aclosed |-> 0])
    /\ UNCHANGED invocationVars

\* client.aclose(): idempotent in its effect, counted per call
Aclose(cs, id) ==
    [cs EXCEPT ![id] = [@ EXCEPT !.closed = TRUE, !.acloses = @ + 1]]

\* a request was sent on client c: its pool may hold connections
RequestSentOn(c) ==
    \E i \in Invocations :
        \E k \in 1..Len(trace[i]) :
            trace[i][k].ev = "request" /\ trace[i][k].client = c

\* aclose() of client c may return to the event loop before it completes
AcloseMaySuspend(c) == ~clients[c].closed /\ RequestSentOn(c)

\* The scope is left normally: lines 33-34 up to the completion of aclose(),
\* or up to its suspension with the client already marked closed.
LifespanExit(s) ==
    /\ scopes[s].pc = "yielded"
    /\ clients' = Aclose(clients, http_client)
    /\ \E suspends \in BOOLEAN :
          /\ suspends => AcloseMaySuspend(http_client)
          /\ scopes' = [scopes EXCEPT ![s] =
                            [@ EXCEPT !.pc = IF suspends THEN "closing" ELSE "exited",
                                      !.aclosed = http_client]]
    /\ UNCHANGED <<http_client, invocationVars>>

\* The suspended aclose() completes: line 34 returns and the scope ends.
LifespanExitDone(s) ==
    /\ scopes[s].pc = "closing"
    /\ scopes' = [scopes EXCEPT ![s] = [@ EXCEPT !.pc = "exited"]]
    /\ UNCHANGED <<http_client, clients, invocationVars>>

\* The task leaving the scope is cancelled while aclose() is suspended: the
\* scope ends by CancelledError, the client stays marked closed.
LifespanExitCancelled(s) ==
    /\ scopes[s].pc = "closing"
    /\ scopes' = [scopes EXCEPT ![s] = [@ EXCEPT !.pc = "raised"]]
    /\ UNCHANGED <<http_client, clients, invocationVars>>

LifespanRaise(s) ==
    /\ scopes[s].pc = "yielded"
    /\ scopes' = [scopes EXCEPT ![s] = [@ EXCEPT !.pc = "raised"]]
    /\ UNCHANGED <<http_client, clients, invocationVars>>

(***************************************************************************)
(* get_http_client                                                         *)
(***************************************************************************)
\* faulty variant: a fallback client constructed earlier is handed out again
Acquired_ReuseFallback ==
    IF http_client = 0
    THEN (IF Len(clients) > 0 THEN Len(clients) ELSE 1)
    ELSE http_client

\* the index of the client get_http_client returns
Acquired == IF http_client = 0 THEN Len(clients) + 1 ELSE http_client

\* faulty variant: a client is constructed on every call
ClientsAfterAcquire_AlwaysConstruct == Append(clients, NewClient("fallback"))

\* the clients after get_http_client: the fallback path constructs one
ClientsAfterAcquire ==
    IF http_client = 0 THEN Append(clients, NewClient("fallback")) ELSE clients

\* faulty variant: the fallback client is registered as the shared one
SlotAfterAcquire_Registers ==
    IF http_client = 0 THEN Len(clients) + 1 ELSE http_client

\* the global http_client after get_http_client: neither path assigns it
SlotAfterAcquire == http_client

\* faulty variant: get_weather closes the client it used, whichever it is
ReleaseOnReturn_CloseAny(cs, cl) == Aclose(cs, cl)

\* faulty variant: get_weather closes the client it used when it is a fallback
ReleaseOnReturn_CloseFallback(cs, cl) ==
    IF cs[cl].origin = "fallback" THEN Aclose(cs, cl) ELSE cs

\* the clients when get_weather ends, by return or by exception: lines
\* 107-109 close nothing
ReleaseOnReturn(cs, cl) == cs

\* faulty variant: the resolved name is kept where a concurrent invocation
\* that resolved its own location overwrites it
ResolvedName_Shared(i) ==
    LET others == {j \in Invocations \ {i} : pc[j] \in {"weather", "done"}
                                              /\ locals[j] # NoLocals}
    IN  IF others # {} THEN locals[CHOOSE j \in others : TRUE].name
        ELSE locals[i].name

\* the local variable name of invocation i's frame, read at line 99
ResolvedName(i) == locals[i].name

(***************************************************************************)
(* get_weather: get_http_client, then get_weather_logic up to its first    *)
(* suspension point, the geocoding request.                                *)
(***************************************************************************)
GetWeather(i, c) ==
    /\ pc[i] = "idle"
    /\ http_client' = SlotAfterAcquire
    /\ client' = [client EXCEPT ![i] = Acquired]
    /\ city' = [city EXCEPT ![i] = c]
    /\ IF ClientsAfterAcquire[Acquired].closed
       THEN /\ result' = [result EXCEPT ![i] = ClosedClientError]
            /\ pc' = [pc EXCEPT ![i] = "done"]
            /\ clients' = ReleaseOnReturn(ClientsAfterAcquire, Acquired)
            /\ UNCHANGED trace
       ELSE /\ trace' = [trace EXCEPT ![i] =
                            IssueGet(<<>>, Acquired, geo_url, geo_params(c))]
            /\ pc' = [pc EXCEPT ![i] = "geocoding"]
            /\ clients' = ClientsAfterAcquire
            /\ UNCHANGED result
    /\ UNCHANGED <<scopes, locals>>

\* The geocoding response arrives: lines 59-86, up to the weather request.
GeoResponse(i, resp) ==
    /\ pc[i] = "geocoding"
    /\ LET received == Append(trace[i], ResponseEvent(resp))
           outcome == GeoOutcome(city[i], resp)
       IN  IF outcome # NoResult
           THEN /\ result' = [result EXCEPT ![i] = outcome]
                /\ pc' = [pc EXCEPT ![i] = "done"]
                /\ trace' = [trace EXCEPT ![i] = received]
                /\ clients' = ReleaseOnReturn(clients, client[i])
                /\ UNCHANGED locals
           ELSE /\ locals' = [locals EXCEPT ![i] = Locals(resp)]
                /\ IF clients[client[i]].closed
                   THEN /\ result' = [result EXCEPT ![i] = ClosedClientError]
                        /\ pc' = [pc EXCEPT ![i] = "done"]
                        /\ trace' = [trace EXCEPT ![i] = received]
                        /\ clients' = ReleaseOnReturn(clients, client[i])
                   ELSE /\ trace' = [trace EXCEPT ![i] =
                                IssueGet(received, client[i], weather_url,
                                         weather_params(Locals(resp).lat,
                                                        Locals(resp).lng))]
                        /\ pc' = [pc EXCEPT ![i] = "weather"]
                        /\ UNCHANGED <<result, clients>>
    /\ UNCHANGED <<http_client, scopes, city, client>>

\* The weather response arrives: lines 86-99.
WeatherResponse(i, resp) ==
    /\ pc[i] = "weather"
    /\ trace' = [trace EXCEPT ![i] = Append(@, ResponseEvent(resp))]
    /\ result' = [result EXCEPT ![i] = WeatherOutcome(ResolvedName(i), resp)]
    /\ pc' = [pc EXCEPT ![i] = "done"]
    /\ clients' = ReleaseOnReturn(clients, client[i])
    /\ UNCHANGED <<http_client, scopes, city, client, locals>>

Next ==
    \/ LifespanEnter
    \/ \E s \in 1..MaxScopes : s <= Len(scopes) /\ LifespanExit(s)
    \/ \E s \in 1..MaxScopes : s <= Len(scopes) /\ LifespanExitDone(s)
    \/ \E s \in 1..MaxScopes : s <= Len(scopes) /\ LifespanExitCancelled(s)
    \/ \E s \in 1..MaxScopes : s <= Len(scopes) /\ LifespanRaise(s)
    \/ \E i \in Invocations, c \in Cities : GetWeather(i, c)
    \/ \E i \in Invocations, resp \in GeoResponses : GeoResponse(i, resp)
    \/ \E i \in Invocations, resp \in WeatherResponses : WeatherResponse(i, resp)

Spec == Init /\ [][Next]_vars

(***************************************************************************)
(* Vocabulary of the properties: what an invocation's trace shows.         *)
(***************************************************************************)
IsRequest(e) == e.ev = "request"
IsResponse(e) == e.ev = "response"

\* the GET requests invocation i has issued, in order
Requests(i) == SelectSeq(trace[i], IsRequest)
\* the responses invocation i has received, in order
Responses(i) == SelectSeq(trace[i], IsResponse)

IsGeoRequest(e) == IsRequest(e) /\ e.url = "https://geocoding-api.open-meteo.com/v1/search"
IsWeatherRequest(e) == IsRequest(e) /\ e.url = "https://api.open-meteo.com/v1/forecast"

NoWeatherRequest(i) == \A k \in 1..Len(trace[i]) : ~IsWeatherRequest(trace[i][k])

GeoAnswered(i) == Len(Responses(i)) >= 1
WeatherAnswered(i) == Len(Responses(i)) >= 2
GeoReply(i) == Responses(i)[1].resp
WeatherReply(i) == Responses(i)[2].resp

\* the geocoding reply is a 2xx whose results field is a non-empty list
GeoHasCandidate(i) ==
    /\ GeoAnswered(i)
    /\ GeoReply(i).kind = "ok"
    /\ "results" \in DOMAIN GeoReply(i).body.v
    /\ GeoReply(i).body.v["results"].t = "list"
    /\ Len(GeoReply(i).body.v["results"].v) >= 1

\* the geocoding reply is a 2xx whose results field is absent, null or empty
GeoHasNoCandidate(i) ==
    /\ GeoAnswered(i)
    /\ GeoReply(i).kind = "ok"
    /\ \/ "results" \notin DOMAIN GeoReply(i).body.v
       \/ GeoReply(i).body.v["results"] = [t |-> "null"]
       \/ GeoReply(i).body.v["results"] = [t |-> "list", v |-> <<>>]

Failed(resp) == resp.kind = "transport_error" \/ resp.kind = "status_error"

\* results[0] of the geocoding reply, read from the raw body
Candidate(i) == GeoReply(i).body.v["results"].v[1].v

CityNotFound(i) ==
    /\ result[i].kind = "raise"
    /\ result[i].exc = "ValueError"
    /\ result[i].msg = "City not found: " \o city[i]

(***************************************************************************)
(* C1: when the geocoding call succeeds with a non-empty results list and  *)
(* the weather call succeeds, exactly two GET requests are issued, both on *)
(* the invocation's client: the geocoding request first, the weather       *)
(* request second and only after the geocoding response was received.      *)
(***************************************************************************)
C1_TwoRequestsInOrder ==
    \A i \in Invocations :
        (GeoHasCandidate(i) /\ WeatherAnswered(i) /\ WeatherReply(i).kind = "ok")
        => /\ Len(Requests(i)) = 2
           /\ IsGeoRequest(Requests(i)[1])
           /\ IsWeatherRequest(Requests(i)[2])
           /\ Requests(i)[1].client = client[i]
           /\ Requests(i)[2].client = client[i]
           /\ Requests(i)[1].params =
                 [name |-> city[i], count |-> 1, language |-> "en", format |-> "json"]
           /\ trace[i] = <<Requests(i)[1], Responses(i)[1],
                           Requests(i)[2], Responses(i)[2]>>

C1_Witness ==
    \E i \in Invocations :
        /\ pc[i] = "done"
        /\ GeoHasCandidate(i)
        /\ WeatherAnswered(i)
        /\ WeatherReply(i).kind = "ok"
        /\ result[i].kind = "return"

(***************************************************************************)
(* C2: when the geocoding call succeeds but results is absent or empty,    *)
(* the invocation raises CityNotFound (it does not return a string) and    *)
(* issues no weather request.                                              *)
(***************************************************************************)
C2_NoCandidateRaisesCityNotFound ==
    \A i \in Invocations :
        GeoHasNoCandidate(i)
        => /\ pc[i] = "done"
           /\ CityNotFound(i)
           /\ NoWeatherRequest(i)
           /\ Len(Requests(i)) = 1

C2_Witness ==
    /\ \E i \in Invocations :
          GeoHasNoCandidate(i) /\ "results" \notin DOMAIN GeoReply(i).body.v
    /\ \E i \in Invocations :
          GeoHasNoCandidate(i) /\ "results" \in DOMAIN GeoReply(i).body.v
             /\ GeoReply(i).body.v["results"].t = "list"

(***************************************************************************)
(* C3: when the geocoding call fails at the transport level or with a      *)
(* non-2xx status, the invocation returns (does not raise) the string      *)
(* "Error fetching geocoding data: <details>" and issues no weather        *)
(* request.                                                                *)
(***************************************************************************)
C3_GeocodingFailureIsSoft ==
    \A i \in Invocations :
        (GeoAnswered(i) /\ Failed(GeoReply(i)))
        => /\ pc[i] = "done"
           /\ result[i] = [kind |-> "return",
                           value |-> "Error fetching geocoding data: "
                                        \o GeoReply(i).msg]
           /\ NoWeatherRequest(i)
           /\ Len(Requests(i)) = 1

C3_Witness ==
    /\ \E i \in Invocations :
          GeoAnswered(i) /\ GeoReply(i).kind = "transport_error"
             /\ result[i].value = "Error fetching geocoding data: API Down"
    /\ \E i \in Invocations :
          GeoAnswered(i) /\ GeoReply(i).kind = "status_error"

(***************************************************************************)
(* C4: when geocoding succeeds with a candidate but the weather call fails *)
(* at the transport level or with a non-2xx status, the invocation returns *)
(* the string "Error fetching weather data: <details>": it raises nothing  *)
(* and returns no weather summary.                                         *)
(***************************************************************************)
C4_WeatherFailureIsSoft ==
    \A i \in Invocations :
        (GeoHasCandidate(i) /\ WeatherAnswered(i) /\ Failed(WeatherReply(i)))
        => /\ pc[i] = "done"
           /\ result[i] = [kind |-> "return",
                           value |-> "Error fetching weather data: "
                                        \o WeatherReply(i).msg]

C4_Witness ==
    /\ \E i \in Invocations :
          GeoHasCandidate(i) /\ WeatherAnswered(i)
             /\ WeatherReply(i).kind = "transport_error"
             /\ result[i].value = "Error fetching weather data: Timeout"
    /\ \E i \in Invocations :
          GeoHasCandidate(i) /\ WeatherAnswered(i)
             /\ WeatherReply(i).kind = "status_error"

(***************************************************************************)
(* C5: every invocation of the tool ends in a returned string or in        *)
(* CityNotFound; no other error escapes, whatever fields the upstream      *)
(* responses lack.                                                         *)
(***************************************************************************)
C5_OnlyThreeOutcomes ==
    \A i \in Invocations :
        pc[i] = "done" => (result[i].kind = "return" \/ CityNotFound(i))

(***************************************************************************)
(* C6: every weather request carries the latitude and longitude of         *)
(* results[0] of the same invocation's geocoding response, however many    *)
(* candidates that response holds.                                         *)
(***************************************************************************)
C6_CoordinatesOfFirstCandidate ==
    \A i \in Invocations :
        \A k \in 1..Len(trace[i]) :
            IsWeatherRequest(trace[i][k])
            => /\ GeoHasCandidate(i)
               /\ trace[i][k].params.latitude = Candidate(i)["latitude"]
               /\ trace[i][k].params.longitude = Candidate(i)["longitude"]
               /\ trace[i][k].params.current_weather = "true"

C6_Witness ==
    \E i \in Invocations :
        /\ GeoHasCandidate(i)
        /\ Len(GeoReply(i).body.v["results"].v) = 2
        /\ GeoReply(i).body.v["results"].v[1] # GeoReply(i).body.v["results"].v[2]
        /\ Len(Requests(i)) = 2
        /\ Requests(i)[2].params.latitude = [t |-> "float", m |-> 515, e |-> 1]

(***************************************************************************)
(* C7: when both calls succeed and current_weather carries temperature and *)
(* windspeed, the invocation returns exactly                               *)
(* "Current weather in {name}: {temperature}°C, Wind: {windspeed}km/h",    *)
(* name being the name of results[0], not the city argument.               *)
(***************************************************************************)
HasReadings(i) ==
    /\ WeatherAnswered(i)
    /\ WeatherReply(i).kind = "ok"
    /\ "current_weather" \in DOMAIN WeatherReply(i).body.v
    /\ WeatherReply(i).body.v["current_weather"].t = "dict"

Readings(i) == WeatherReply(i).body.v["current_weather"].v

C7_ExactSummary ==
    \A i \in Invocations :
        (GeoHasCandidate(i) /\ HasReadings(i)
            /\ {"temperature", "windspeed"} \subseteq DOMAIN Readings(i))
        => /\ pc[i] = "done"
           /\ result[i].kind = "return"
           /\ result[i].value =
                 "Current weather in " \o Candidate(i)["name"].v \o ": "
                 \o PyStr(Readings(i)["temperature"]) \o "°C, Wind: "
                 \o PyStr(Readings(i)["windspeed"]) \o "km/h"
           /\ (Readings(i) = [temperature |-> [t |-> "float", m |-> 155, e |-> 1],
                              windspeed |-> [t |-> "float", m |-> 102, e |-> 1]]
               => result[i].value \in
                     {"Current weather in Paris: 15.5°C, Wind: 10.2km/h",
                      "Current weather in London: 15.5°C, Wind: 10.2km/h"})

C7_Witness ==
    \E i \in Invocations :
        /\ city[i] = "Paris"
        /\ GeoHasCandidate(i)
        /\ Len(GeoReply(i).body.v["results"].v) = 2
        /\ Candidate(i)["name"].v = "London"
        /\ HasReadings(i)
        /\ result[i] = [kind |-> "return",
                        value |-> "Current weather in London: 15.5°C, Wind: 10.2km/h"]

(***************************************************************************)
(* C8: when the weather call succeeds but temperature and/or windspeed is  *)
(* absent or null in the current_weather object (or the object itself is   *)
(* absent), the invocation still returns the summary, each missing value   *)
(* rendered as "None" and no default number substituted.                   *)
(***************************************************************************)
\* current_weather as the reply gives it, an absent one being an empty object
ReadingsOrEmpty(i) ==
    IF "current_weather" \in DOMAIN WeatherReply(i).body.v
    THEN WeatherReply(i).body.v["current_weather"].v
    ELSE <<>>

Missing(d, key) == key \notin DOMAIN d \/ d[key] = [t |-> "null"]

Rendered(d, key) == IF Missing(d, key) THEN "None" ELSE PyStr(d[key])

C8_MissingReadingsRenderNone ==
    \A i \in Invocations :
        (/\ GeoHasCandidate(i)
         /\ WeatherAnswered(i)
         /\ WeatherReply(i).kind = "ok"
         /\ ("current_weather" \in DOMAIN WeatherReply(i).body.v
                => WeatherReply(i).body.v["current_weather"].t = "dict")
         /\ (Missing(ReadingsOrEmpty(i), "temperature")
                \/ Missing(ReadingsOrEmpty(i), "windspeed")))
        => /\ pc[i] = "done"
           /\ result[i].kind = "return"
           /\ result[i].value =
                 "Current weather in " \o Candidate(i)["name"].v \o ": "
                 \o Rendered(ReadingsOrEmpty(i), "temperature") \o "°C, Wind: "
                 \o Rendered(ReadingsOrEmpty(i), "windspeed") \o "km/h"

C8_Witness ==
    /\ \E i \in Invocations :
          result[i] = [kind |-> "return",
                       value |-> "Current weather in Paris: None°C, Wind: 3km/h"]
    /\ \E i \in Invocations :
          result[i] = [kind |-> "return",
                       value |-> "Current weather in Paris: -10.0°C, Wind: Nonekm/h"]

(***************************************************************************)
(* C9: whatever sequence of lifespan entries, lifespan exits and           *)
(* get_http_client calls has run, the client get_http_client returns is    *)
(* not closed at the moment it is returned.                                *)
(***************************************************************************)
C9_AcquiredClientIsOpen ==
    [][\A i \in Invocations :
          (pc[i] = "idle" /\ pc'[i] # "idle") => ~clients'[client'[i]].closed]_vars

(***************************************************************************)
(* C10: however a lifespan scope ends, the client its entry created is     *)
(* closed exactly once, and the exit closes no other client.               *)
(***************************************************************************)
ScopeEnded(s) == scopes[s].pc \in {"exited", "raised"}

C10_CreatedClientClosedOnce ==
    \A s \in 1..Len(scopes) :
        ScopeEnded(s)
        => /\ clients[scopes[s].created].closed
           /\ clients[scopes[s].created].acloses = 1
           /\ scopes[s].aclosed = scopes[s].created

(***************************************************************************)
(* Vocabulary of the lifecycle properties.                                 *)
(***************************************************************************)
\* invocation i calls get_http_client in this step
Acquires(i) == pc[i] = "idle" /\ pc'[i] # "idle"

\* invocation i has called get_http_client
HasAcquired(i) == pc[i] # "idle"

\* the clients lifespan constructed / the clients get_http_client constructed
SharedClients == {c \in 1..Len(clients) : clients[c].origin = "lifespan"}
FallbackClients == {c \in 1..Len(clients) : clients[c].origin = "fallback"}

(***************************************************************************)
(* C11: while the shared client exists, every get_http_client call, of     *)
(* whichever invocation, returns the instance the global names and         *)
(* constructs no client.                                                   *)
(***************************************************************************)
C11_AcquireReturnsShared ==
    [][\A i \in Invocations :
          (Acquires(i) /\ http_client # 0)
          => /\ client'[i] = http_client
             /\ clients[http_client].origin = "lifespan"
             /\ Len(clients') = Len(clients)]_vars

C11_Witness ==
    \E i, j \in Invocations :
        /\ i # j
        /\ pc[i] \in {"geocoding", "weather"}
        /\ pc[j] \in {"geocoding", "weather"}
        /\ client[i] = http_client
        /\ client[j] = http_client
        /\ clients[http_client].origin = "lifespan"
        /\ FallbackClients = {}

(***************************************************************************)
(* C12: before lifespan has populated the global, every get_http_client    *)
(* call returns a newly constructed client: no two such calls return the   *)
(* same instance.                                                          *)
(***************************************************************************)
C12_FallbacksAreDistinct ==
    /\ \A i, j \in Invocations :
          (/\ i # j
           /\ HasAcquired(i)
           /\ HasAcquired(j)
           /\ client[i] \in FallbackClients
           /\ client[j] \in FallbackClients)
          => client[i] # client[j]
    /\ Cardinality(FallbackClients)
          = Cardinality({i \in Invocations :
                            HasAcquired(i) /\ client[i] \in FallbackClients})

C12_Witness ==
    \E i, j \in Invocations :
        /\ i # j
        /\ HasAcquired(i)
        /\ HasAcquired(j)
        /\ client[i] \in FallbackClients
        /\ client[j] \in FallbackClients
        /\ client[i] # client[j]

(***************************************************************************)
(* C13: get_http_client never assigns the global: on the fallback path it  *)
(* stays None (the temporary client is not registered), on the normal path *)
(* it keeps naming the same client.                                        *)
(***************************************************************************)
C13_AcquireLeavesSlot ==
    [][(\E i \in Invocations : Acquires(i)) => http_client' = http_client]_vars

C13_Witness ==
    /\ http_client = 0
    /\ \E i \in Invocations : HasAcquired(i) /\ client[i] \in FallbackClients

(***************************************************************************)
(* C14: at every point of every execution at most one open client          *)
(* constructed by lifespan exists.                                         *)
(***************************************************************************)
OpenSharedClients == {c \in SharedClients : ~clients[c].closed}

C14_AtMostOneOpenShared == Cardinality(OpenSharedClients) <= 1

(***************************************************************************)
(* C15: no step of an invocation, on any outcome path, assigns the global  *)
(* or closes or otherwise changes a client lifespan constructed; only      *)
(* lifespan entry and exit do.                                             *)
(***************************************************************************)
\* some invocation takes a step
InvocationStep == \E i \in Invocations : pc'[i] # pc[i]

C15_InvocationsLeaveSharedClient ==
    [][InvocationStep
       => /\ http_client' = http_client
          /\ \A c \in SharedClients : clients'[c] = clients[c]]_vars

C15_Witness ==
    \E i, j \in Invocations :
        /\ i # j
        /\ client[i] = client[j]
        /\ client[i] \in OpenSharedClients
        /\ pc[i] = "done"
        /\ pc[j] = "done"
        /\ result[i].kind = "return"
        /\ CityNotFound(j)

(***************************************************************************)
(* C16: an invocation only moves forward through Start, Geocoding,         *)
(* Weather, End: its trace only grows, it issues at most one geocoding     *)
(* request and at most one weather request (a failed request is never      *)
(* issued again), and it issues a weather request only when the geocoding  *)
(* reply produced a candidate.                                             *)
(***************************************************************************)
Rank(p) ==
    CASE p = "idle" -> 0
      [] p = "geocoding" -> 1
      [] p = "weather" -> 2
      [] p = "done" -> 3

IsPrefix(s, t) == Len(s) <= Len(t) /\ SubSeq(t, 1, Len(s)) = s

GeoRequestCount(i) == Len(SelectSeq(trace[i], IsGeoRequest))
WeatherRequestCount(i) == Len(SelectSeq(trace[i], IsWeatherRequest))

\* the trace of invocation i is one the state machine allows
ForwardShape(i) ==
    /\ GeoRequestCount(i) <= 1
    /\ WeatherRequestCount(i) <= 1
    /\ WeatherRequestCount(i) = 1
          => /\ GeoHasCandidate(i)
             /\ IsGeoRequest(trace[i][1])
             /\ IsResponse(trace[i][2])
             /\ IsWeatherRequest(trace[i][3])
    /\ (GeoAnswered(i) /\ ~GeoHasCandidate(i)) => pc[i] = "done"

C16_ForwardOnly ==
    [][\A i \in Invocations :
          /\ Rank(pc[i]) <= Rank(pc'[i])
          /\ IsPrefix(trace[i], trace'[i])
          /\ ForwardShape(i)']_vars

C16_Witness ==
    \E i, j \in Invocations :
        /\ pc[i] = "done"
        /\ Len(trace[i]) = 4
        /\ Failed(WeatherReply(i))
        /\ pc[j] = "done"
        /\ Len(trace[j]) = 2
        /\ Failed(GeoReply(j))

(***************************************************************************)
(* C17: a fallback client constructed for an invocation that arrived       *)
(* before lifespan entry is closed by nobody: it is open when the          *)
(* invocation ends, whatever the outcome, and stays open after the         *)
(* lifespan exit.                                                          *)
(***************************************************************************)
C17_FallbackNeverClosed ==
    \A c \in FallbackClients : ~clients[c].closed /\ clients[c].acloses = 0

C17_Witness ==
    \E i, j \in Invocations :
        /\ i # j
        /\ client[i] \in FallbackClients
        /\ client[j] \in FallbackClients
        /\ pc[i] = "done"
        /\ pc[j] = "done"
        /\ result[i].kind = "return"
        /\ result[j].kind = "raise"
        /\ \E s \in 1..Len(scopes) : scopes[s].pc = "exited"
        /\ ~clients[client[i]].closed
        /\ ~clients[client[j]].closed

(***************************************************************************)
(* C18: whatever the interleaving, the weather request and the result of   *)
(* an invocation are determined by its own city argument and the replies   *)
(* to its own requests, never by what another invocation resolved,         *)
(* fetched or failed with; and its geocoding request precedes its weather  *)
(* request.                                                                *)
(***************************************************************************)
\* what get_weather_logic makes of city c and the replies rs it received
OwnResult(c, rs) ==
    IF Len(rs) = 0
    THEN ClosedClientError
    ELSE IF Len(rs) = 1
    THEN (IF GeoOutcome(c, rs[1].resp) # NoResult
          THEN GeoOutcome(c, rs[1].resp)
          ELSE ClosedClientError)
    ELSE WeatherOutcome(rs[1].resp.body.v["results"].v[1].v["name"], rs[2].resp)

C18_OwnInputsOnly ==
    \A i \in Invocations :
        /\ pc[i] = "done" => result[i] = OwnResult(city[i], Responses(i))
        /\ \A k \in 1..Len(trace[i]) :
              IsWeatherRequest(trace[i][k])
              => /\ \E g \in 1..(k - 1) : IsGeoRequest(trace[i][g])
                 /\ trace[i][k].params.latitude = Candidate(i)["latitude"]
                 /\ trace[i][k].params.longitude = Candidate(i)["longitude"]
        /\ \A k \in 1..Len(trace[i]) :
              IsGeoRequest(trace[i][k]) => trace[i][k].params.name = city[i]

C18_Witness ==
    \E i, j \in Invocations :
        /\ i # j
        /\ client[i] = client[j]
        /\ client[i] \in SharedClients
        /\ city[i] # city[j]
        /\ result[i] = [kind |-> "return",
                        value |-> "Current weather in Paris: 15.5°C, Wind: 10.2km/h"]
        /\ result[j] = [kind |-> "return",
                        value |-> "Error fetching weather data: Timeout"]
        /\ Candidate(j)["name"].v = "London"

====
